---- MODULE Spec2Model ----
(***************************************************************************)
(* Model of TextToSQLGenerator (src/utils/texttosql.py): the sanitizer     *)
(* _clean_sql_query as a pure function over character sequences, and the   *)
(* coordinator query_from_text with its database connection state.         *)
(*                                                                         *)
(* A Python str is a sequence of one-character strings.  Python's None is  *)
(* the one-element sequence <<"None">>, which is no str over the alphabet. *)
(***************************************************************************)
EXTENDS Naturals, Sequences, FiniteSets

VARIABLES
  raw,        \* sanitizer: the raw completion handed to _clean_sql_query
  tag,        \* sanitizer: the fence wrapping applied to raw, or "unwrapped"
  out,        \* sanitizer: _clean_sql_query(raw), None before the call
  outF,       \* sanitizer: _clean_sql_query(wrap(tag, raw)), None before the call
  out2,       \* sanitizer: _clean_sql_query(out), None before the call
  conn,       \* self.conn: "None", "open" or "closed"
  cursor,     \* self.cursor: "None", "open" or "closed"
  txn,        \* transaction state of the session behind self.conn
  lastOp,     \* the public method that ran last
  ret,        \* how it ended: "returned" or "raised"
  call,       \* the inputs of the last query_from_text call
  outcome,    \* the dict the last query_from_text call returned
  execCalls,  \* execute_query invocations during the last query_from_text call
  opened      \* whether the last query_from_text call opened a connection

sanVars == <<raw, tag, out, outF, out2>>
coVars == <<conn, cursor, txn, lastOp, ret, call, outcome, execCalls, opened>>
vars == <<raw, tag, out, outF, out2, conn, cursor, txn, lastOp, ret, call, outcome,
          execCalls, opened>>

(***************************************************************************)
(* Python values                                                           *)
(***************************************************************************)
None == <<"None">>
NL == "\n"
Whitespace == {" ", NL}
\* the backquote character (a TLA+ string literal cannot hold it)
BQ == "backquote"
Fence == <<BQ, BQ, BQ>>
FenceNl == <<BQ, BQ, BQ, NL>>
FenceSql == <<BQ, BQ, BQ, "s", "q", "l", NL>>

\* not x, for x a str or None
Falsy(x) == x = None \/ x = <<>>

Drop(s, n) == SubSeq(s, n + 1, Len(s))

startswith(s, p) == Len(s) >= Len(p) /\ SubSeq(s, 1, Len(p)) = p

endswith(s, p) == Len(s) >= Len(p) /\ SubSeq(s, Len(s) - Len(p) + 1, Len(s)) = p

RECURSIVE lstrip(_)
lstrip(s) == IF s # <<>> /\ Head(s) \in Whitespace THEN lstrip(Tail(s)) ELSE s

RECURSIVE rstrip(_)
rstrip(s) ==
  IF s # <<>> /\ s[Len(s)] \in Whitespace THEN rstrip(SubSeq(s, 1, Len(s) - 1)) ELSE s

strip(s) == rstrip(lstrip(s))

\* re.sub of the pattern  FenceSql | FenceNl | Fence  by "": leftmost match first,
\* the alternatives tried in the order written
RECURSIVE re_sub(_)
re_sub(s) ==
  IF s = <<>> THEN <<>>
  ELSE IF startswith(s, FenceSql) THEN re_sub(Drop(s, Len(FenceSql)))
  ELSE IF startswith(s, FenceNl) THEN re_sub(Drop(s, Len(FenceNl)))
  ELSE IF startswith(s, Fence) THEN re_sub(Drop(s, Len(Fence)))
  ELSE <<Head(s)>> \o re_sub(Tail(s))

\* s.split('\n')
RECURSIVE split(_)
split(s) ==
  IF \A i \in 1..Len(s) : s[i] # NL THEN <<s>>
  ELSE LET i == CHOOSE k \in 1..Len(s) : s[k] = NL /\ \A j \in 1..(k - 1) : s[j] # NL
       IN <<SubSeq(s, 1, i - 1)>> \o split(Drop(s, i))

\* ' '.join(lines)
RECURSIVE join(_)
join(lines) ==
  IF lines = <<>> THEN <<>>
  ELSE IF Len(lines) = 1 THEN lines[1]
  ELSE lines[1] \o <<" ">> \o join(Tail(lines))

\* the loop of _clean_sql_query: the stripped lines that are SQL
RECURSIVE sql_lines(_)
sql_lines(lines) ==
  IF lines = <<>> THEN <<>>
  ELSE LET line == strip(Head(lines))
       IN (IF line # <<>> /\ ~startswith(line, <<"#">>) /\ ~startswith(line, <<"-", "-">>)
           THEN <<line>> ELSE <<>>) \o sql_lines(Tail(lines))

\* ensure_semicolon without its endswith test
append_semicolon(query) == query \o <<";">>

ensure_semicolon(query) == IF ~endswith(query, <<";">>) THEN query \o <<";">> ELSE query

remove_code_blocks(query) == IF startswith(query, Fence) THEN re_sub(query) ELSE query

clean_sql_query(raw_query) ==
  ensure_semicolon(join(sql_lines(split(remove_code_blocks(strip(raw_query))))))

(***************************************************************************)
(* The raw completions the sanitizer is run on: every concatenation of at  *)
(* most MaxFrags fragments.                                                *)
(***************************************************************************)
MaxFrags == 4

Fragments ==
  { Fence, <<BQ>>, <<"s", "q", "l">>, <<NL>>, <<" ">>, <<";">>, <<"a">>, <<"-", "-">>,
    <<"#">> }

RECURSIVE Concats(_)
Concats(n) ==
  IF n = 0 THEN {<<>>}
  ELSE LET shorter == Concats(n - 1)
       IN shorter \cup {p \o f : p \in shorter, f \in Fragments}

RawInputs == Concats(MaxFrags)

\* language tags of an opening fence: none, sql, and one the pattern does not name
Tags == {<<>>, <<"s", "q", "l">>, <<"p", "y">>}

\* s inside a code fence: the opening fence with its tag on a line, s, the closing fence
wrap(t, s) == Fence \o t \o <<NL>> \o s \o <<NL>> \o Fence

SanInit ==
  /\ raw \in RawInputs
  /\ tag = None
  /\ out = None
  /\ outF = None
  /\ out2 = None
  /\ conn = "None"
  /\ cursor = "None"
  /\ txn = "idle"
  /\ lastOp = "init"
  /\ ret = "returned"
  /\ call = [question |-> "none", llm |-> <<"None">>, reach |-> FALSE]
  /\ outcome = [returned |-> FALSE]
  /\ execCalls = 0
  /\ opened = FALSE

\* _clean_sql_query(raw)
Clean ==
  /\ out = None
  /\ out' = clean_sql_query(raw)
  /\ UNCHANGED <<raw, tag, outF, out2>>
  /\ UNCHANGED coVars

\* _clean_sql_query on the output of _clean_sql_query(raw)
Reclean ==
  /\ out # None
  /\ out2 = None
  /\ out2' = clean_sql_query(out)
  /\ UNCHANGED <<raw, tag, out, outF>>
  /\ UNCHANGED coVars

\* _clean_sql_query on raw wrapped in a code fence with language tag t
CleanFenced(t) ==
  /\ outF = None
  /\ tag' = t
  /\ outF' = clean_sql_query(wrap(t, raw))
  /\ UNCHANGED <<raw, out, out2>>
  /\ UNCHANGED coVars

SanNext ==
  \/ Clean
  \/ Reclean
  \/ \E t \in Tags : CleanFenced(t)

SanSpec == SanInit /\ [][SanNext]_vars

(***************************************************************************)
(* The database behind psycopg2, as execute_query sees it.                 *)
(***************************************************************************)
\* statements the database knows; any other statement is a syntax error
SelectAll == <<"a", ";">>
SelectNone == <<"e", ";">>
Command == <<"d", ";">>
EmptyQuery == <<";">>

ColumnNames == <<"first", "last">>
TableRows == << <<"ann", "lee">>, <<"bob", "ray">> >>

\* a connection and its cursor as the object holds them
st0 == [conn |-> "None", cursor |-> "None", txn |-> "idle"]

\* psycopg2.connect(**self.db_config) and self.conn.cursor(), then re-raise on failure
connect_db(st, reach) ==
  IF reach
  THEN [st |-> [conn |-> "open", cursor |-> "open", txn |-> "idle"], raised |-> FALSE]
  ELSE [st |-> st, raised |-> TRUE]

\* cursor.close() if self.cursor, conn.close() if self.conn; neither is reset to None
close_db(st) ==
  [conn |-> IF st.conn = "None" THEN "None" ELSE "closed",
   cursor |-> IF st.cursor = "None" THEN "None" ELSE "closed",
   txn |-> "idle"]

\* self.cursor.execute(sql_query), self.cursor.description, self.cursor.fetchall()
cursor_execute(st, sql_query, reach) ==
  LET fail(s) == [st |-> s, raised |-> TRUE, description |-> None, rows |-> <<>>]
  IN IF st.cursor = "None" THEN fail(st)
     ELSE IF st.cursor = "closed" \/ st.conn = "closed" THEN fail(st)
     ELSE IF ~reach THEN fail([st EXCEPT !.conn = "closed", !.txn = "idle"])
     ELSE IF st.txn = "aborted" THEN fail(st)
     ELSE IF sql_query = SelectAll
       THEN [st |-> st, raised |-> FALSE, description |-> ColumnNames, rows |-> TableRows]
     ELSE IF sql_query = SelectNone
       THEN [st |-> st, raised |-> FALSE, description |-> ColumnNames, rows |-> <<>>]
     ELSE IF sql_query = Command
       THEN [st |-> st, raised |-> FALSE, description |-> None, rows |-> <<>>]
     ELSE IF sql_query = EmptyQuery THEN fail(st)
     ELSE fail([st EXCEPT !.txn = "aborted"])

\* dict(zip(column_names, row)): a later column of the same name wins
row_dict(column_names, row) ==
  LET n == IF Len(column_names) < Len(row) THEN Len(column_names) ELSE Len(row)
      last(c) == CHOOSE i \in 1..n : column_names[i] = c /\ \A j \in (i + 1)..n : column_names[j] # c
  IN [c \in {column_names[i] : i \in 1..n} |-> row[last(c)]]

\* execute_query with connect_db called ahead of the try block
execute_query_connect_outside_try(st, sql_query, reach) ==
  LET co == IF st.conn = "None" THEN connect_db(st, reach) ELSE [st |-> st, raised |-> FALSE]
      ex == cursor_execute(co.st, sql_query, reach)
      didOpen == st.conn = "None" /\ ~co.raised
  IN IF co.raised
     THEN [results |-> <<>>, raised |-> TRUE, st |-> co.st, opened |-> didOpen]
     ELSE IF ex.raised \/ ex.description = None
     THEN [results |-> <<>>, raised |-> FALSE, st |-> ex.st, opened |-> didOpen]
     ELSE [results |-> [i \in 1..Len(ex.rows) |-> row_dict(ex.description, ex.rows[i])],
           raised |-> FALSE, st |-> ex.st, opened |-> didOpen]

\* execute_query: the try block and its except, which returns []
execute_query(st, sql_query, reach) ==
  LET co == IF st.conn = "None" THEN connect_db(st, reach) ELSE [st |-> st, raised |-> FALSE]
      ex == cursor_execute(co.st, sql_query, reach)
      didOpen == st.conn = "None" /\ ~co.raised
  IN IF co.raised
     THEN [results |-> <<>>, raised |-> FALSE, st |-> co.st, opened |-> didOpen]
     ELSE IF ex.raised \/ ex.description = None
     THEN [results |-> <<>>, raised |-> FALSE, st |-> ex.st, opened |-> didOpen]
     ELSE [results |-> [i \in 1..Len(ex.rows) |-> row_dict(ex.description, ex.rows[i])],
           raised |-> FALSE, st |-> ex.st, opened |-> didOpen]

(***************************************************************************)
(* The language model and the coordinator.                                 *)
(***************************************************************************)
\* what self.sql_chain.run does: it raises, or it returns a completion
LlmRaises == <<"raise">>
Completions ==
  { <<"a">>,                                          \* a SELECT, no semicolon
    FenceSql \o <<"a", ";", NL>> \o Fence,            \* the same, fenced
    <<"-", "-", "a", NL, "#", "a">>,                  \* comment lines only
    <<"x">>,                                          \* not SQL
    <<"e", ";">>,                                     \* a SELECT matching no row
    <<"d", ";">> }                                    \* a statement returning no rows
LlmResults == {LlmRaises} \cup Completions

Questions == {"q1", "q2"}

\* generate_sql_query: the completion cleaned, None when anything raises
generate_sql_query(llm) == IF llm = LlmRaises THEN None ELSE clean_sql_query(llm)

FailedToGenerate == <<"Failed to generate SQL query">>

\* the dict returned when generation fails
failure_outcome(question) ==
  [question |-> question, sql_query |-> None, results |-> <<>>, error |-> FailedToGenerate]

\* the dict returned after execute_query
executed_outcome(question, sql_query, results) ==
  [question |-> question, sql_query |-> sql_query, results |-> results,
   num_results |-> Len(results), error |-> None]

NoOutcome == [returned |-> FALSE]
NoCall == [question |-> "none", llm |-> None, reach |-> FALSE]

\* query_from_text on a coordinator whose connection is st
query_from_text(st, question, llm, reach) ==
  LET sql_query == generate_sql_query(llm)
      ex == execute_query(st, sql_query, reach)
  IN IF Falsy(sql_query)
     THEN [outcome |-> failure_outcome(question), ret |-> "returned", st |-> st,
           execCalls |-> 0, opened |-> FALSE]
     ELSE IF ex.raised
     THEN [outcome |-> NoOutcome, ret |-> "raised", st |-> ex.st,
           execCalls |-> 1, opened |-> ex.opened]
     ELSE [outcome |-> executed_outcome(question, sql_query, ex.results), ret |-> "returned",
           st |-> ex.st, execCalls |-> 1, opened |-> ex.opened]

Init ==
  /\ raw = <<>>
  /\ tag = None
  /\ out = None
  /\ outF = None
  /\ out2 = None
  /\ conn = st0.conn
  /\ cursor = st0.cursor
  /\ txn = st0.txn
  /\ lastOp = "init"
  /\ ret = "returned"
  /\ call = NoCall
  /\ outcome = NoOutcome
  /\ execCalls = 0
  /\ opened = FALSE

cur == [conn |-> conn, cursor |-> cursor, txn |-> txn]

\* the caller runs connect_db()
ConnectDb(reach) ==
  LET r == connect_db(cur, reach)
  IN /\ conn' = r.st.conn
     /\ cursor' = r.st.cursor
     /\ txn' = r.st.txn
     /\ lastOp' = "connect_db"
     /\ ret' = IF r.raised THEN "raised" ELSE "returned"
     /\ UNCHANGED <<call, outcome, execCalls, opened>>
     /\ UNCHANGED sanVars

\* the caller runs close_db()
CloseDb ==
  LET s == close_db(cur)
  IN /\ conn' = s.conn
     /\ cursor' = s.cursor
     /\ txn' = s.txn
     /\ lastOp' = "close_db"
     /\ ret' = "returned"
     /\ UNCHANGED <<call, outcome, execCalls, opened>>
     /\ UNCHANGED sanVars

\* the caller runs query_from_text(question); the model answers llm, the database is
\* reachable or not for the length of the call
QueryFromText(question, llm, reach) ==
  LET r == query_from_text(cur, question, llm, reach)
  IN /\ conn' = r.st.conn
     /\ cursor' = r.st.cursor
     /\ txn' = r.st.txn
     /\ lastOp' = "query_from_text"
     /\ ret' = r.ret
     /\ call' = [question |-> question, llm |-> llm, reach |-> reach]
     /\ outcome' = r.outcome
     /\ execCalls' = r.execCalls
     /\ opened' = r.opened
     /\ UNCHANGED sanVars

Next ==
  \/ \E reach \in BOOLEAN : ConnectDb(reach)
  \/ CloseDb
  \/ \E question \in Questions, llm \in LlmResults, reach \in BOOLEAN :
       QueryFromText(question, llm, reach)

Spec == Init /\ [][Next]_vars

(***************************************************************************)
(* Properties                                                              *)
(***************************************************************************)
Contains(s, p) == \E i \in 1..(Len(s) - Len(p) + 1) : SubSeq(s, i, i + Len(p) - 1) = p

Answered == lastOp = "query_from_text"

\* every line of the completion is, once stripped, empty or a # or -- comment
CommentOnly(text) ==
  \A i \in 1..Len(split(text)) :
    LET line == strip(split(text)[i])
    IN line = <<>> \/ line[1] = "#" \/ (Len(line) >= 2 /\ line[1] = "-" /\ line[2] = "-")

\* the database rejects the statement as a syntax error
Rejected(sql_query) == sql_query \notin {SelectAll, SelectNone, Command, EmptyQuery}

\* x is one trimmed line that ends with a semicolon
SingleLine(x) ==
  /\ x # <<>>
  /\ \A i \in 1..Len(x) : x[i] # NL
  /\ x[1] # " "
  /\ x[Len(x)] = ";"

\* C1: when the model call raises, query_from_text returns sql null, no rows, count 0
\* and an error, and execute_query is not invoked during the call.
C1_GenerationFailure ==
  (Answered /\ call.llm = LlmRaises) =>
    /\ ret = "returned"
    /\ outcome.sql_query = None
    /\ outcome.results = <<>>
    /\ "num_results" \in DOMAIN outcome
    /\ outcome.num_results = 0
    /\ outcome.error # None
    /\ execCalls = 0

\* C2: when generation and sanitization succeed and the execution fails (the database
\* rejects the statement, or no connection can be made), the outcome carries the
\* sanitized sql, no rows, count 0 and a non-null error.
C2_ExecuteFailure ==
  (/\ Answered
   /\ call.llm \in Completions
   /\ ~CommentOnly(call.llm)
   /\ (~call.reach \/ Rejected(clean_sql_query(call.llm)))) =>
    /\ ret = "returned"
    /\ outcome.sql_query = clean_sql_query(call.llm)
    /\ outcome.results = <<>>
    /\ outcome.num_results = 0
    /\ outcome.error # None

\* C3: every outcome query_from_text returns has a rows field and a count field, and
\* the count is the number of rows.
C3_RowsAndCount ==
  (Answered /\ ret = "returned") =>
    /\ "results" \in DOMAIN outcome
    /\ "num_results" \in DOMAIN outcome
    /\ outcome.num_results = Len(outcome.results)

C5_CommentOnlyFails ==
  (Answered /\ call.llm \in Completions /\ CommentOnly(call.llm)) =>
    /\ outcome.sql_query = None
    /\ outcome.error # None
    /\ execCalls = 0

\* C6: whatever _clean_sql_query returns is non-empty, trimmed, ends with exactly one
\* semicolon and holds no fence marker.
C6_SanitizedShape ==
  out # None =>
    /\ out # <<>>
    /\ strip(out) = out
    /\ endswith(out, <<";">>)
    /\ ~endswith(out, <<";", ";">>)
    /\ ~Contains(out, Fence)

\* C7: for an SQL text (one with a statement line and no fence marker of its own) and
\* any fence wrapping of it, with no language tag or with any, the sanitized fenced
\* text equals the sanitized text.
C7_FenceTransparent ==
  (out # None /\ outF # None /\ ~Contains(raw, Fence) /\ ~CommentOnly(raw)) => outF = out

\* C8: on a single trimmed line ending with a semicolon, sanitizing the sanitized
\* text gives the sanitized text again.
C8_Idempotent ==
  (SingleLine(raw) /\ out2 # None) => out2 = out

\* a fenced single line was sanitized twice, and the first pass changed it
C8_Witness ==
  /\ SingleLine(raw)
  /\ startswith(raw, Fence)
  /\ out2 # None
  /\ out # raw
  /\ out # <<";">>
  /\ out2 = out

\* C9: a call whose statement is valid, against a reachable database, returns what it
\* would return on a fresh coordinator, whatever calls came before.
C9_HistoryIndependent ==
  (/\ Answered
   /\ call.reach
   /\ generate_sql_query(call.llm) \in {SelectAll, SelectNone}) =>
    /\ ret = "returned"
    /\ outcome = query_from_text(st0, call.question, call.llm, call.reach).outcome

\* C10: when query_from_text returns, no connection that the call opened is still open.
C10_ConnectionReleased ==
  (Answered /\ opened) => conn # "open"

====
